---- MODULE Spec2Model ----
(***************************************************************************)
(* A model of src/models.py: the two networks (LeNet5, ResNet9) as shape   *)
(* transformers, the CombinedDataset wrapper, check_gpu, and the           *)
(* simple_train / simple_test loops under the epoch driver of main().      *)
(* Tensor values are the library's business; what is modelled of a tensor  *)
(* is its shape, and of a numeric kernel that it is a deterministic        *)
(* function of its arguments.                                              *)
(***************************************************************************)
EXTENDS Integers, Sequences, FiniteSets, TLC

VARIABLES
    net,        \* the constructed nn.Module of the shape model, or NoNet
    fwd,        \* the last forward() call on net: input, flattened, output
    ds,         \* the CombinedDataset object: features, labels, transform
    rd,         \* the last len(dataset) / dataset[idx] call and its result
    env,        \* which accelerators torch reports as available
    rng,        \* the seed of each random generator: cpu, cuda, mps
    gpu,        \* the last check_gpu call: arguments, device, printed line
    cfg,        \* the run's settings: architecture, dataset sizes, batch sizes, bad batch
    pc,         \* where main() is
    epoch,      \* the epoch of the driver's loop
    it,         \* how many batches the current loader iteration has handed out
    batch_idx,  \* the index of the batch being processed
    training,   \* each model's training flag (model.train() / model.eval())
    params,     \* each model's parameters
    snap,       \* the driver model's parameters when the current batch was fetched
    grad,       \* how many backward passes the held gradient sums
    num_batches_tracked,  \* each model's BatchNorm buffer
    steps,      \* optimizer steps of the current simple_train call
    processed,  \* batch indices the current simple_train call has stepped on
    trace,      \* the operations done on the current train batch, in order
    lines,      \* progress lines the current simple_train call has printed
    test_loss,  \* simple_test's running loss
    correct,    \* simple_test's running count
    report,     \* the last line simple_test printed
    passes,     \* completed simple_train and simple_test calls
    fault       \* the exception that ended the run, if any

shapeVars == <<net, fwd>>
dataVars == <<ds, rd>>
gpuVars == <<env, rng, gpu>>
drvVars == <<cfg, pc, epoch, it, batch_idx, training, params, snap, grad,
             num_batches_tracked, steps, processed, trace, lines, test_loss, correct,
             report, passes, fault>>
vars == <<shapeVars, dataVars, gpuVars, drvVars>>

(***************************************************************************)
(* Bounds of the shape model.                                              *)
(***************************************************************************)
MaxSide == 33       \* input_size sides range over 1..MaxSide
MaxChan == 2        \* in_channels ranges over 1..MaxChan
MaxClass == 2       \* num_classes ranges over 1..MaxClass
MaxB == 2           \* forward batch sizes range over 1..MaxB

(***************************************************************************)
(* Tensor shapes.  A shape is a tuple of dimensions; Fault stands for the  *)
(* exception the library raises, and every layer propagates it.            *)
(***************************************************************************)
Fault == <<>>

\* nn.Conv2d(cin, cout, kernel_size=k, stride=s, padding=p) on (B, C, H, W)
Conv2d(x, cin, cout, k, s, p) ==
    IF x = Fault \/ Len(x) # 4 THEN Fault
    ELSE IF x[2] # cin \/ x[3] + 2 * p < k \/ x[4] + 2 * p < k THEN Fault
    ELSE <<x[1], cout, ((x[3] + 2 * p - k) \div s) + 1, ((x[4] + 2 * p - k) \div s) + 1>>

\* nn.AvgPool2d / nn.MaxPool2d(kernel_size=k, stride=s): floor mode, no padding
Pool2d(x, k, s) ==
    IF x = Fault \/ Len(x) # 4 THEN Fault
    ELSE IF x[3] < k \/ x[4] < k THEN Fault
    ELSE <<x[1], x[2], ((x[3] - k) \div s) + 1, ((x[4] - k) \div s) + 1>>

\* nn.BatchNorm2d(c): in training mode it needs more than one value per channel
BatchNorm2d(x, c, mode) ==
    IF x = Fault \/ Len(x) # 4 THEN Fault
    ELSE IF x[2] # c THEN Fault
    ELSE IF mode /\ x[1] * x[3] * x[4] = 1 THEN Fault
    ELSE x

\* F.relu / nn.ReLU: elementwise
ReLU(x) == x

\* nn.Linear(fin, fout) on (B, F)
Linear(x, fin, fout) ==
    IF x = Fault \/ Len(x) # 2 THEN Fault
    ELSE IF x[2] # fin THEN Fault
    ELSE <<x[1], fout>>

\* x.view(x.size(0), -1)
Flatten(x) ==
    IF x = Fault \/ Len(x) # 4 THEN Fault
    ELSE <<x[1], x[2] * x[3] * x[4]>>

BroadcastDim(a, b) == IF a = b THEN a ELSE IF a = 1 THEN b ELSE IF b = 1 THEN a ELSE 0

\* a + b on tensors: elementwise with broadcasting of size-1 dimensions
Add(a, b) ==
    IF a = Fault \/ b = Fault \/ Len(a) # Len(b) THEN Fault
    ELSE IF \E i \in 1..Len(a) : BroadcastDim(a[i], b[i]) = 0 THEN Fault
    ELSE [i \in 1..Len(a) |-> BroadcastDim(a[i], b[i])]

(***************************************************************************)
(* LeNet5                                                                  *)
(***************************************************************************)
\* a construction-time pass that stops before pool2, out of step with forward
LeNet5FeaturesNoPool2(x, c) ==
    Conv2d(Pool2d(Conv2d(x, c, 6, 5, 1, 2), 2, 2), 6, 16, 5, 1, 0)

\* the construction-time pass over the dummy input
LeNet5Features(x, c) ==
    Pool2d(Conv2d(Pool2d(Conv2d(x, c, 6, 5, 1, 2), 2, 2), 6, 16, 5, 1, 0), 2, 2)

\* what forward feeds to fc1
LeNet5Flat(m, x) ==
    Flatten(Pool2d(ReLU(Conv2d(Pool2d(ReLU(Conv2d(x, m.in_channels, 6, 5, 1, 2)), 2, 2),
                                6, 16, 5, 1, 0)), 2, 2))

LeNet5Forward(m, x) ==
    Linear(ReLU(Linear(ReLU(Linear(LeNet5Flat(m, x), m.feature_size, 120)), 120, 84)),
           84, m.num_classes)

(***************************************************************************)
(* ResNet9                                                                 *)
(***************************************************************************)
residual_block(x, cin, cout, pool, mode) ==
    LET y == ReLU(BatchNorm2d(Conv2d(x, cin, cout, 3, 1, 1), cout, mode))
    IN  IF pool THEN Pool2d(y, 2, 2) ELSE y

\* nn.Sequential(residual_block(c, c), residual_block(c, c))
ResidualPair(x, c, mode) ==
    residual_block(residual_block(x, c, c, FALSE, mode), c, c, FALSE, mode)

\* the construction-time pass: prep, layer1_head, layer2, layer3_head, pool
ResNet9Features(x, c) ==
    Pool2d(residual_block(residual_block(residual_block(residual_block(x, c, 64, FALSE, TRUE),
        64, 128, TRUE, TRUE), 128, 256, TRUE, TRUE), 256, 512, TRUE, TRUE), 2, 2)

\* forward, kept step by step: the operands of both residual additions, what
\* is flattened for the linear layer, and the output
ResNet9Run(m, x, mode) ==
    LET prep == residual_block(x, m.in_channels, 64, FALSE, mode)
        head1 == residual_block(prep, 64, 128, TRUE, mode)
        res1 == ResidualPair(head1, 128, mode)
        sum1 == Add(res1, head1)
        layer2 == residual_block(sum1, 128, 256, TRUE, mode)
        head3 == residual_block(layer2, 256, 512, TRUE, mode)
        res3 == ResidualPair(head3, 512, mode)
        sum3 == Add(res3, head3)
        flat == Flatten(Pool2d(sum3, 2, 2))
    IN  [sums |-> << <<res1, head1>>, <<res3, head3>> >>,
         flat |-> flat,
         out |-> Linear(flat, m.feature_size, m.num_classes)]

ResNet9Forward(m, x, mode) == ResNet9Run(m, x, mode).out

(***************************************************************************)
(* Construction and forward as operations on net / fwd.                    *)
(***************************************************************************)
NoNet == [arch |-> "none"]
NoCall == [called |-> FALSE]

Prod(s) == s[2] * s[3] * s[4]

\* models[name](in_channels=c, num_classes=k, input_size=(h, w))
Module(arch, c, k, h, w, dummy_output) ==
    IF dummy_output = Fault
    THEN [arch |-> "failed"]
    ELSE [arch |-> arch, in_channels |-> c, num_classes |-> k, input_size |-> <<h, w>>,
          feature_size |-> Prod(dummy_output), training |-> TRUE]

ConstructLeNet5(c, k, h, w) ==
    /\ net' = Module("LeNet5", c, k, h, w, LeNet5Features(<<1, c, h, w>>, c))
    /\ fwd' = NoCall

ConstructResNet9(c, k, h, w) ==
    /\ net' = Module("ResNet9", c, k, h, w, ResNet9Features(<<1, c, h, w>>, c))
    /\ fwd' = NoCall

Built == net.arch \in {"LeNet5", "ResNet9"}

\* model.train() / model.eval()
SetMode(t) ==
    /\ Built
    /\ net' = [net EXCEPT !.training = t]
    /\ UNCHANGED fwd

Call(x, flat, out, sums) ==
    [called |-> TRUE, input |-> x, flat |-> flat, out |-> out, sums |-> sums]

\* model(x) for a batch of the shape the module was built for
Forward(B) ==
    /\ Built
    /\ LET x == <<B, net.in_channels, net.input_size[1], net.input_size[2]>>
           run == ResNet9Run(net, x, net.training)
       IN  fwd' = IF net.arch = "LeNet5"
                  THEN Call(x, LeNet5Flat(net, x), LeNet5Forward(net, x), <<>>)
                  ELSE Call(x, run.flat, run.out, run.sums)
    /\ UNCHANGED net

ShapeInit == net = NoNet /\ fwd = NoCall



(***************************************************************************)
(* CombinedDataset                                                         *)
(***************************************************************************)
MaxLen == 3         \* features and labels hold at most MaxLen items
NumVals == 2        \* a sample takes one of the values 0..NumVals-1
NumLabels == 2      \* a label takes one of the values 0..NumLabels-1

\* the position of an item no sequence holds: seq[idx] raises IndexError
IndexError == 0 - 1
None == "None"
\* the transform hooks tried: none, one that returns a new value, and one that
\* works in place on the object it is handed (features[idx] is a reference to
\* the stored item, not a copy)
Transforms == {None, "pure", "inplace"}

SeqsUpTo(S, n) == UNION {[1..k -> S] : k \in 0..n}

\* seq[idx] for a Python sequence: negative positions count from the end
Index(seq, idx) ==
    IF 0 <= idx /\ idx < Len(seq) THEN seq[idx + 1]
    ELSE IF idx < 0 /\ 0 - idx <= Len(seq) THEN seq[Len(seq) + idx + 1]
    ELSE IndexError

Position(seq, idx) == IF idx < 0 THEN Len(seq) + idx + 1 ELSE idx + 1

\* the value a transform returns for x
Apply(t, x) == IF t = None THEN x ELSE (x + 1) % NumVals

\* a __getitem__ that stores what the transform returns
StoredWriteBack(t, features, idx) ==
    IF t # None
    THEN [features EXCEPT ![Position(features, idx)] = Apply(t, features[Position(features, idx)])]
    ELSE features

\* the stored features once transform t has been called on features[idx]
Stored(t, features, idx) ==
    IF t = "inplace"
    THEN [features EXCEPT ![Position(features, idx)] = Apply(t, features[Position(features, idx)])]
    ELSE features

NoDataset == [built |-> FALSE]
NoRead == [op |-> "none"]

\* CombinedDataset(features, labels, transform)
DatasetInit(features, labels, transform) ==
    /\ ~ds.built
    /\ ds' = [built |-> TRUE, features |-> features, labels |-> labels,
              transform |-> transform]
    /\ rd' = NoRead

\* len(dataset)
DatasetLen ==
    /\ ds.built
    /\ rd' = [op |-> "len", result |-> Len(ds.features)]
    /\ UNCHANGED ds

\* dataset[idx]
GetItem(idx) ==
    /\ ds.built
    /\ LET x == Index(ds.features, idx)
           y == Index(ds.labels, idx)
           again == rd.op = "getitem" /\ rd.idx = idx
       IN  IF x = IndexError \/ y = IndexError
           THEN /\ rd' = [op |-> "getitem", idx |-> idx, again |-> again, raised |-> TRUE,
                          result |-> <<>>]
                /\ UNCHANGED ds
           ELSE /\ rd' = [op |-> "getitem", idx |-> idx, again |-> again, raised |-> FALSE,
                          result |-> <<Apply(ds.transform, x), y>>]
                /\ ds' = [ds EXCEPT !.features = Stored(ds.transform, ds.features, idx)]

DataInit == ds = NoDataset /\ rd = NoRead


(***************************************************************************)
(* check_gpu                                                               *)
(***************************************************************************)
MaxSeed == 2        \* seeds set outside check_gpu range over 1..MaxSeed

\* a generator nobody has seeded yet
Unseeded == 0 - 1

\* torch.manual_seed(s): the default generator and every available accelerator
TorchManualSeed(r, s) ==
    [cpu |-> s,
     cuda |-> IF env.cuda THEN s ELSE r.cuda,
     mps |-> IF env.mps THEN s ELSE r.mps]

\* the device check_gpu picks
Device == IF env.cuda THEN "cuda" ELSE IF env.mps THEN "mps" ELSE "cpu"

\* the line check_gpu prints
Info == IF env.cuda THEN "CUDA is available"
        ELSE IF env.mps THEN "MPS is available" ELSE "CUDA is not available"

\* a check_gpu that seeds the default generator whatever manual_seed says
SeededAlways(r, manual_seed) ==
    LET r1 == TorchManualSeed(r, 0)
    IN  IF env.cuda THEN [r1 EXCEPT !.cuda = 0]
        ELSE IF env.mps THEN [r1 EXCEPT !.mps = 0]
        ELSE r1

\* the generators after check_gpu's seeding calls
Seeded(r, manual_seed) ==
    LET r1 == IF manual_seed THEN TorchManualSeed(r, 0) ELSE r
    IN  IF env.cuda THEN [r1 EXCEPT !.cuda = 0]
        ELSE IF env.mps THEN [r1 EXCEPT !.mps = 0]
        ELSE r1

NoGpuCall == [called |-> FALSE]

check_gpu(manual_seed, print_info) ==
    /\ rng' = Seeded(rng, manual_seed)
    /\ gpu' = [called |-> TRUE, manual_seed |-> manual_seed, print_info |-> print_info,
               device |-> Device, printed |-> IF print_info THEN <<Info>> ELSE <<>>,
               before |-> rng]
    /\ UNCHANGED env

\* torch.manual_seed(seed) as main() calls it after check_gpu
ManualSeed(s) ==
    /\ rng' = TorchManualSeed(rng, s)
    /\ gpu' = NoGpuCall
    /\ UNCHANGED env

GpuInit ==
    /\ env \in [cuda : BOOLEAN, mps : BOOLEAN]
    /\ rng = [cpu |-> Unseeded, cuda |-> Unseeded, mps |-> Unseeded]
    /\ gpu = NoGpuCall


(***************************************************************************)
(* The training and test loops under the epoch driver of main().           *)
(***************************************************************************)
MaxTrainN == 3      \* small train datasets hold 1..MaxTrainN samples
MaxTestN == 3       \* test datasets hold 0..MaxTestN samples
MaxBatch == 2       \* batch_size and test_batch_size range over 1..MaxBatch
MaxParam == 1       \* a parameter vector takes one of the values 0..MaxParam

epochs == 10
PrintEvery == 100

\* the driver's model, and a second instance nobody trains
Models == {"model", "other"}
Archs == {"LeNet5", "ResNet9"}

Min(a, b) == IF a < b THEN a ELSE b

\* len(loader) for a DataLoader that keeps the last, smaller batch
NumBatches(n, bs) == (n + bs - 1) \div bs

\* the dataset positions batch b of a sequential loader holds
BatchItems(n, bs, b) == (b * bs)..(Min((b + 1) * bs, n) - 1)

\* len(data) of batch b
BatchLen(n, bs, b) == Min(bs, n - b * bs)

NoFault == [phase |-> "none", kind |-> "none", at |-> 0]

\* a malformed batch: its shape does not fit the model ("shape": forward raises)
\* or its labels do not fit its features ("labels": cross_entropy raises)
Faults ==
    {NoFault} \cup [phase : {"train", "test"}, kind : {"shape", "labels"}, at : 0..(MaxTrainN - 1)]

SmallConfigs ==
    {c \in [arch : Archs, train_n : 1..MaxTrainN, batch_size : 1..MaxBatch,
            test_n : 0..MaxTestN, test_batch_size : 1..MaxBatch, fault : Faults] :
        /\ c.fault.phase = "train" => c.fault.at < NumBatches(c.train_n, c.batch_size)
        /\ c.fault.phase = "test" => c.fault.at < NumBatches(c.test_n, c.test_batch_size)}

\* train datasets long enough for a second progress line, on a full batch
\* and on a last batch that is not
BigConfigs ==
    {[arch |-> "LeNet5", train_n |-> PrintEvery * MaxBatch + r, batch_size |-> MaxBatch,
      test_n |-> 1, test_batch_size |-> 1, fault |-> NoFault] : r \in {1, MaxBatch}}

Configs == SmallConfigs \cup BigConfigs

\* the test set and the network's answers: deterministic functions of the
\* parameters and the sample, whatever the batch the sample arrives in
target(i) == i % NumLabels
SamplePred(p, i) == (p * i + (i \div 2)) % NumLabels
SampleLoss(p, i) == 1 + ((p + i) % 3)

RECURSIVE SumLoss(_, _)
SumLoss(p, S) ==
    IF S = {} THEN 0
    ELSE LET i == CHOOSE j \in S : TRUE IN SampleLoss(p, i) + SumLoss(p, S \ {i})

\* a loss left at the default reduction, the batch mean
BatchLossMean(p, S) == SumLoss(p, S) \div Cardinality(S)

\* F.cross_entropy(output, target, reduction='sum').item()
BatchLossSum(p, S) == SumLoss(p, S)

\* pred.eq(target.view_as(pred)).sum().item()
BatchCorrect(p, S) == Cardinality({i \in S : SamplePred(p, i) = target(i)})

\* batch_idx * len(data)
Shown(idx, len) == idx * len

NoReport == [printed |-> FALSE]
NoError == [raised |-> FALSE]

DriverInit ==
    /\ cfg \in Configs
    /\ pc = "epoch"
    /\ epoch = 0
    /\ it = 0
    /\ batch_idx = 0
    /\ training = [m \in Models |-> TRUE]
    /\ params = [m \in Models |-> 0]
    /\ snap = 0
    /\ grad = 0
    /\ num_batches_tracked = [m \in Models |-> 0]
    /\ steps = 0
    /\ processed = <<>>
    /\ trace = <<>>
    /\ lines = <<>>
    /\ test_loss = 0
    /\ correct = 0
    /\ report = NoReport
    /\ passes = [train |-> 0, test |-> 0]
    /\ fault = NoError

\* positions inside simple_train and simple_test, and those that hold a batch
TrainPcs == {"fetch", "zero_grad", "forward", "loss", "backward", "step", "print"}
TrainBatchPcs == TrainPcs \ {"fetch"}
TestPcs == {"tfetch", "tforward", "tloss", "report"}
TestBatchPcs == {"tforward", "tloss"}

\* a loop that catches the exception and goes on with the next batch
RaiseAndContinue(what) ==
    /\ pc' = IF pc \in TrainPcs THEN "fetch" ELSE "tfetch"
    /\ fault' = [raised |-> TRUE, what |-> what, phase |-> pc, epoch |-> epoch,
                 batch_idx |-> batch_idx]

\* an exception nobody catches: it ends simple_train / simple_test and main()
Raise(what) ==
    /\ pc' = "faulted"
    /\ fault' = [raised |-> TRUE, what |-> what, phase |-> pc, epoch |-> epoch,
                 batch_idx |-> batch_idx]

FaultHere(phase, kind) ==
    cfg.fault.phase = phase /\ cfg.fault.kind = kind /\ cfg.fault.at = batch_idx

\* for epoch in range(1, epochs + 1)
EpochNext ==
    /\ pc = "epoch"
    /\ IF epoch < epochs
       THEN epoch' = epoch + 1 /\ pc' = "train"
       ELSE epoch' = epoch /\ pc' = "done"
    /\ UNCHANGED <<cfg, it, batch_idx, training, params, snap, grad, num_batches_tracked,
                   steps, processed, trace, lines, test_loss, correct, report, passes, fault>>

\* simple_train: model.train()
TrainEnter ==
    /\ pc = "train"
    /\ training' = [training EXCEPT !["model"] = TRUE]
    /\ it' = 0
    /\ steps' = 0
    /\ processed' = <<>>
    /\ lines' = <<>>
    /\ pc' = "fetch"
    /\ UNCHANGED <<cfg, epoch, batch_idx, params, snap, grad, num_batches_tracked, trace,
                   test_loss, correct, report, passes, fault>>

\* for batch_idx, (data, target) in enumerate(train_loader); data.to(device)
TrainFetch ==
    /\ pc = "fetch"
    /\ IF it < NumBatches(cfg.train_n, cfg.batch_size)
       THEN /\ batch_idx' = it
            /\ it' = it + 1
            /\ snap' = params["model"]
            /\ trace' = <<>>
            /\ pc' = "zero_grad"
            /\ UNCHANGED passes
       ELSE /\ passes' = [passes EXCEPT !.train = @ + 1]
            /\ pc' = "test"
            /\ UNCHANGED <<batch_idx, it, snap, trace>>
    /\ UNCHANGED <<cfg, epoch, training, params, grad, num_batches_tracked, steps, processed,
                   lines, test_loss, correct, report, fault>>

\* a zero_grad that leaves the held gradient in place
ZeroGradKeep ==
    /\ pc = "zero_grad"
    /\ grad' = grad
    /\ trace' = Append(trace, "zero_grad")
    /\ pc' = "forward"
    /\ UNCHANGED <<cfg, epoch, it, batch_idx, training, params, snap, num_batches_tracked,
                   steps, processed, lines, test_loss, correct, report, passes, fault>>

\* optimizer.zero_grad()
ZeroGrad ==
    /\ pc = "zero_grad"
    /\ grad' = 0
    /\ trace' = Append(trace, "zero_grad")
    /\ pc' = "forward"
    /\ UNCHANGED <<cfg, epoch, it, batch_idx, training, params, snap, num_batches_tracked,
                   steps, processed, lines, test_loss, correct, report, passes, fault>>

\* BatchNorm2d counts the batches it has normalised in training mode
Tracked(t) ==
    IF cfg.arch = "ResNet9" /\ training["model"]
    THEN [t EXCEPT !["model"] = @ + 1]
    ELSE t

\* output = model(data)
TrainForward ==
    /\ pc = "forward"
    /\ IF FaultHere("train", "shape")
       THEN /\ Raise("forward")
            /\ \E reached \in BOOLEAN :
                  num_batches_tracked' =
                      IF reached THEN Tracked(num_batches_tracked) ELSE num_batches_tracked
            /\ UNCHANGED trace
       ELSE /\ num_batches_tracked' = Tracked(num_batches_tracked)
            /\ trace' = Append(trace, "forward")
            /\ pc' = "loss"
            /\ UNCHANGED fault
    /\ UNCHANGED <<cfg, epoch, it, batch_idx, training, params, snap, grad, steps, processed,
                   lines, test_loss, correct, report, passes>>

\* loss = F.cross_entropy(output, target)
TrainLoss ==
    /\ pc = "loss"
    /\ IF FaultHere("train", "labels")
       THEN Raise("cross_entropy") /\ UNCHANGED trace
       ELSE trace' = Append(trace, "loss") /\ pc' = "backward" /\ UNCHANGED fault
    /\ UNCHANGED <<cfg, epoch, it, batch_idx, training, params, snap, grad,
                   num_batches_tracked, steps, processed, lines, test_loss, correct, report,
                   passes>>

\* a backward pass that also writes the parameters
BackwardStepping ==
    /\ pc = "backward"
    /\ grad' = grad + 1
    /\ \E v \in 0..MaxParam : params' = [params EXCEPT !["model"] = v]
    /\ trace' = Append(trace, "backward")
    /\ pc' = "step"
    /\ UNCHANGED <<cfg, epoch, it, batch_idx, training, snap, num_batches_tracked,
                   steps, processed, lines, test_loss, correct, report, passes, fault>>

\* loss.backward(): adds this batch's gradient to what the parameters hold
Backward ==
    /\ pc = "backward"
    /\ grad' = grad + 1
    /\ trace' = Append(trace, "backward")
    /\ pc' = "step"
    /\ UNCHANGED <<cfg, epoch, it, batch_idx, training, params, snap, num_batches_tracked,
                   steps, processed, lines, test_loss, correct, report, passes, fault>>

\* optimizer.step(): the optimizer holds model.parameters() and nothing else
OptimizerStep ==
    /\ pc = "step"
    /\ \E v \in 0..MaxParam : params' = [params EXCEPT !["model"] = v]
    /\ steps' = steps + 1
    /\ processed' = Append(processed, batch_idx)
    /\ trace' = Append(trace, "step")
    /\ pc' = "print"
    /\ UNCHANGED <<cfg, epoch, it, batch_idx, training, snap, grad, num_batches_tracked,
                   lines, test_loss, correct, report, passes, fault>>

\* if batch_idx % 100 == 0: print(...)
Progress ==
    /\ pc = "print"
    /\ lines' =
          IF batch_idx % PrintEvery = 0
          THEN Append(lines, [epoch |-> epoch, batch_idx |-> batch_idx,
                              shown |-> Shown(batch_idx, BatchLen(cfg.train_n, cfg.batch_size, batch_idx)),
                              total |-> cfg.train_n])
          ELSE lines
    /\ pc' = "fetch"
    /\ UNCHANGED <<cfg, epoch, it, batch_idx, training, params, snap, grad,
                   num_batches_tracked, steps, processed, trace, test_loss, correct, report,
                   passes, fault>>

\* a simple_test that does not call model.eval()
TestEnterNoEval ==
    /\ pc = "test"
    /\ test_loss' = 0
    /\ correct' = 0
    /\ it' = 0
    /\ pc' = "tfetch"
    /\ UNCHANGED <<cfg, epoch, batch_idx, training, params, snap, grad, num_batches_tracked, steps,
                   processed, trace, lines, report, passes, fault>>

\* simple_test: model.eval(); test_loss = 0; correct = 0
TestEnter ==
    /\ pc = "test"
    /\ training' = [training EXCEPT !["model"] = FALSE]
    /\ test_loss' = 0
    /\ correct' = 0
    /\ it' = 0
    /\ pc' = "tfetch"
    /\ UNCHANGED <<cfg, epoch, batch_idx, params, snap, grad, num_batches_tracked, steps,
                   processed, trace, lines, report, passes, fault>>

\* for data, target in test_loader; data.to(device)
TestFetch ==
    /\ pc = "tfetch"
    /\ IF it < NumBatches(cfg.test_n, cfg.test_batch_size)
       THEN batch_idx' = it /\ it' = it + 1 /\ pc' = "tforward"
       ELSE pc' = "report" /\ UNCHANGED <<batch_idx, it>>
    /\ UNCHANGED <<cfg, epoch, training, params, snap, grad, num_batches_tracked, steps,
                   processed, trace, lines, test_loss, correct, report, passes, fault>>

\* output = model(data), under torch.no_grad()
TestForward ==
    /\ pc = "tforward"
    /\ IF FaultHere("test", "shape")
       THEN Raise("forward")
       ELSE pc' = "tloss" /\ UNCHANGED fault
    /\ num_batches_tracked' = Tracked(num_batches_tracked)
    /\ UNCHANGED <<cfg, epoch, it, batch_idx, training, params, snap, grad, steps, processed,
                   trace, lines, test_loss, correct, report, passes>>

\* test_loss += cross_entropy(..., reduction='sum'); correct += pred.eq(target).sum()
TestAccumulate ==
    /\ pc = "tloss"
    /\ IF FaultHere("test", "labels")
       THEN Raise("cross_entropy") /\ UNCHANGED <<test_loss, correct>>
       ELSE LET S == BatchItems(cfg.test_n, cfg.test_batch_size, batch_idx)
            IN  /\ test_loss' = test_loss + BatchLossSum(params["model"], S)
                /\ correct' = correct + BatchCorrect(params["model"], S)
                /\ pc' = "tfetch"
                /\ UNCHANGED fault
    /\ UNCHANGED <<cfg, epoch, it, batch_idx, training, params, snap, grad,
                   num_batches_tracked, steps, processed, trace, lines, report, passes>>

\* test_loss /= len(test_loader.dataset); print(...)
TestReport ==
    /\ pc = "report"
    /\ IF cfg.test_n = 0
       THEN Raise("ZeroDivisionError") /\ UNCHANGED <<report, passes>>
       ELSE /\ report' = [printed |-> TRUE, epoch |-> epoch,
                          avg_loss |-> <<test_loss, cfg.test_n>>, correct |-> correct,
                          total |-> cfg.test_n]
            /\ passes' = [passes EXCEPT !.test = @ + 1]
            /\ pc' = "epoch"
            /\ UNCHANGED fault
    /\ UNCHANGED <<cfg, epoch, it, batch_idx, training, params, snap, grad,
                   num_batches_tracked, steps, processed, trace, lines, test_loss, correct>>


(***************************************************************************)
(* Specifications: one per component.  The components share no state, so   *)
(* each is explored with the others idle.                                  *)
(***************************************************************************)
ShapeIdle == net = NoNet /\ fwd = NoCall
DataIdle == ds = NoDataset /\ rd = NoRead
GpuIdle ==
    /\ env = [cuda |-> FALSE, mps |-> FALSE]
    /\ rng = [cpu |-> Unseeded, cuda |-> Unseeded, mps |-> Unseeded]
    /\ gpu = NoGpuCall
DriverIdle ==
    /\ cfg = [arch |-> "LeNet5", train_n |-> 1, batch_size |-> 1, test_n |-> 1,
              test_batch_size |-> 1, fault |-> NoFault]
    /\ pc = "idle"
    /\ epoch = 0
    /\ it = 0
    /\ batch_idx = 0
    /\ training = [m \in Models |-> TRUE]
    /\ params = [m \in Models |-> 0]
    /\ snap = 0
    /\ grad = 0
    /\ num_batches_tracked = [m \in Models |-> 0]
    /\ steps = 0
    /\ processed = <<>>
    /\ trace = <<>>
    /\ lines = <<>>
    /\ test_loss = 0
    /\ correct = 0
    /\ report = NoReport
    /\ passes = [train |-> 0, test |-> 0]
    /\ fault = NoError

ShapeNext ==
    \/ /\ net = NoNet
       /\ \E c \in 1..MaxChan, k \in 1..MaxClass, h \in 1..MaxSide, w \in 1..MaxSide :
             ConstructLeNet5(c, k, h, w)
       /\ UNCHANGED <<dataVars, gpuVars, drvVars>>
    \/ /\ net = NoNet
       /\ \E c \in 1..MaxChan, k \in 1..MaxClass, h \in 1..MaxSide, w \in 1..MaxSide :
             ConstructResNet9(c, k, h, w)
       /\ UNCHANGED <<dataVars, gpuVars, drvVars>>
    \/ \E t \in BOOLEAN : SetMode(t) /\ UNCHANGED <<dataVars, gpuVars, drvVars>>
    \/ \E B \in 1..MaxB : Forward(B) /\ UNCHANGED <<dataVars, gpuVars, drvVars>>

DataNext ==
    \/ /\ ~ds.built
       /\ \E f \in SeqsUpTo(0..(NumVals - 1), MaxLen), l \in SeqsUpTo(0..(NumLabels - 1), MaxLen),
             t \in Transforms : DatasetInit(f, l, t)
       /\ UNCHANGED <<shapeVars, gpuVars, drvVars>>
    \/ DatasetLen /\ UNCHANGED <<shapeVars, gpuVars, drvVars>>
    \/ \E idx \in (0 - 1)..MaxLen : GetItem(idx) /\ UNCHANGED <<shapeVars, gpuVars, drvVars>>

GpuNext ==
    \/ \E manual_seed \in BOOLEAN, print_info \in BOOLEAN :
          check_gpu(manual_seed, print_info) /\ UNCHANGED <<shapeVars, dataVars, drvVars>>
    \/ \E s \in 1..MaxSeed : ManualSeed(s) /\ UNCHANGED <<shapeVars, dataVars, drvVars>>

Next ==
    \/ EpochNext /\ UNCHANGED <<shapeVars, dataVars, gpuVars>>
    \/ TrainEnter /\ UNCHANGED <<shapeVars, dataVars, gpuVars>>
    \/ TrainFetch /\ UNCHANGED <<shapeVars, dataVars, gpuVars>>
    \/ ZeroGrad /\ UNCHANGED <<shapeVars, dataVars, gpuVars>>
    \/ TrainForward /\ UNCHANGED <<shapeVars, dataVars, gpuVars>>
    \/ TrainLoss /\ UNCHANGED <<shapeVars, dataVars, gpuVars>>
    \/ Backward /\ UNCHANGED <<shapeVars, dataVars, gpuVars>>
    \/ OptimizerStep /\ UNCHANGED <<shapeVars, dataVars, gpuVars>>
    \/ Progress /\ UNCHANGED <<shapeVars, dataVars, gpuVars>>
    \/ TestEnter /\ UNCHANGED <<shapeVars, dataVars, gpuVars>>
    \/ TestFetch /\ UNCHANGED <<shapeVars, dataVars, gpuVars>>
    \/ TestForward /\ UNCHANGED <<shapeVars, dataVars, gpuVars>>
    \/ TestAccumulate /\ UNCHANGED <<shapeVars, dataVars, gpuVars>>
    \/ TestReport /\ UNCHANGED <<shapeVars, dataVars, gpuVars>>

InitShapes == ShapeInit /\ DataIdle /\ GpuIdle /\ DriverIdle
InitData == DataInit /\ ShapeIdle /\ GpuIdle /\ DriverIdle
InitGpu == GpuInit /\ ShapeIdle /\ DataIdle /\ DriverIdle
Init == DriverInit /\ ShapeIdle /\ DataIdle /\ GpuIdle

SpecShapes == InitShapes /\ [][ShapeNext]_vars
SpecData == InitData /\ [][DataNext]_vars
SpecGpu == InitGpu /\ [][GpuNext]_vars
Spec == Init /\ [][Next]_vars
\* the interpreter runs main() to its end: a step that can be taken is taken
FairSpec == Spec /\ WF_vars(Next)
(***************************************************************************)
(* C1: forward on a batch (B, c, h, w) of a constructed model returns      *)
(* (B, num_classes); the features it flattens number feature_size; both    *)
(* residual additions of ResNet9 are between equal shapes.                 *)
(***************************************************************************)
C1_ForwardShape ==
    fwd.called =>
        /\ fwd.out = <<fwd.input[1], net.num_classes>>
        /\ fwd.flat = <<fwd.input[1], net.feature_size>>
        /\ \A i \in 1..Len(fwd.sums) :
              fwd.sums[i][1] # Fault /\ fwd.sums[i][1] = fwd.sums[i][2]

C1_Witness ==
    /\ fwd.called
    /\ net.arch = "ResNet9"
    /\ fwd.input[1] = 1
    /\ net.training
    /\ Len(fwd.sums) = 2
    /\ fwd.out = <<1, net.num_classes>>

(***************************************************************************)
(* C2: len(dataset) = len(features) = len(labels) in every state, and      *)
(* dataset[i] for 0 <= i < len(dataset) is (x, labels[i]) with x the       *)
(* (transformed) features[i].  As stated, for every dataset constructed.   *)
(***************************************************************************)
C2_EqualLengthPairing ==
    ds.built =>
        /\ Len(ds.features) = Len(ds.labels)
        /\ rd.op = "len" => rd.result = Len(ds.features) /\ rd.result = Len(ds.labels)
        /\ (rd.op = "getitem" /\ 0 <= rd.idx /\ rd.idx < Len(ds.features)) =>
              /\ ~rd.raised
              /\ rd.result[2] = ds.labels[rd.idx + 1]

(***************************************************************************)
(* C3 as stated: once constructed, no len(dataset) or dataset[i] call,     *)
(* with or without a transform, changes features, labels or transform.     *)
(***************************************************************************)
C3_NoCallMutates == [][ds.built => ds' = ds]_vars

(***************************************************************************)
(* C3 as amended: len(dataset) changes nothing; dataset[i] never changes   *)
(* labels or transform, and leaves features alone unless the transform     *)
(* works in place; then two reads in a row of one position agree.          *)
(***************************************************************************)
C3_ReadOnlyUnlessInPlace ==
    [][ds.built =>
          /\ ds'.labels = ds.labels
          /\ ds'.transform = ds.transform
          /\ ds'.built
          /\ (ds.transform # "inplace" \/ rd'.op = "len") => ds'.features = ds.features
          /\ (ds.transform # "inplace" /\ rd.op = "getitem" /\ rd'.op = "getitem"
                /\ rd'.idx = rd.idx) => rd'.result = rd.result]_vars

C3_Witness ==
    /\ ds.built
    /\ ds.transform = "pure"
    /\ rd.op = "getitem"
    /\ rd.again
    /\ ~rd.raised
    /\ rd.result[1] # Index(ds.features, rd.idx)

(***************************************************************************)
(* C5 as stated: whatever the arguments and the accelerators, check_gpu    *)
(* returns a device and has seeded random state with 0.                    *)
(***************************************************************************)
C5_AlwaysSeeded ==
    gpu.called =>
        /\ gpu.device \in {"cuda", "mps", "cpu"}
        /\ rng.cpu = 0 \/ rng.cuda = 0 \/ rng.mps = 0

(***************************************************************************)
(* C5 as amended: check_gpu always returns a device (cuda before mps before *)
(* cpu); it seeds the default generator with 0 when manual_seed is set and *)
(* the chosen accelerator's generator with 0 in any case; with manual_seed *)
(* unset and no accelerator it seeds nothing.                              *)
(***************************************************************************)
C5_SeededWhenAsked ==
    gpu.called =>
        /\ gpu.device = Device
        /\ gpu.manual_seed => rng.cpu = 0
        /\ gpu.device = "cuda" => rng.cuda = 0
        /\ gpu.device = "mps" => rng.mps = 0
        /\ ~gpu.manual_seed => rng.cpu = gpu.before.cpu
        /\ (~gpu.manual_seed /\ gpu.device = "cpu") => rng = gpu.before

C5_Witness ==
    /\ gpu.called
    /\ ~gpu.manual_seed
    /\ gpu.device = "cuda"
    /\ rng.cuda = 0
    /\ rng.cpu \in 1..MaxSeed

(***************************************************************************)
(* C4: the parameters change only across optimizer.step(); simple_test     *)
(* leaves them alone; the instance that is not being trained keeps its     *)
(* parameters.  (The BatchNorm buffer is no parameter: forward advances    *)
(* it in training mode.)                                                   *)
(***************************************************************************)
C4_OnlyStepWritesParams ==
    [][/\ params' # params => pc = "step"
       /\ params'["other"] = params["other"]
       /\ pc \in TestPcs \cup {"test"} => params' = params]_vars

C4_Witness ==
    /\ passes.test >= 1
    /\ cfg.arch = "ResNet9"
    /\ params["model"] # params["other"]
    /\ num_batches_tracked["model"] > 0

(***************************************************************************)
(* C6: a batch that faults ends the run there: the fault is raised, no     *)
(* step follows it, and the faulting train batch has not updated the       *)
(* parameters (it faults in forward or in the loss, before the step).      *)
(***************************************************************************)
C6_FaultPropagates ==
    [][/\ pc # "faulted"
       /\ (pc = "forward" /\ FaultHere("train", "shape")) => pc' = "faulted"
       /\ (pc = "loss" /\ FaultHere("train", "labels")) => pc' = "faulted"
       /\ (pc = "tforward" /\ FaultHere("test", "shape")) => pc' = "faulted"
       /\ (pc = "tloss" /\ FaultHere("test", "labels")) => pc' = "faulted"
       /\ pc' = "faulted" =>
             /\ fault'.raised
             /\ params' = params
             /\ passes' = passes
             /\ pc \in TrainPcs =>
                   /\ pc \in {"forward", "loss"}
                   /\ params'["model"] = snap
                   /\ steps' = batch_idx
                   /\ processed' = [i \in 1..batch_idx |-> i - 1]]_vars

C6_Witness ==
    /\ pc = "faulted"
    /\ fault.what = "cross_entropy"
    /\ fault.phase = "loss"
    /\ fault.batch_idx = 1
    /\ steps = 1
    /\ params["model"] # 0

(***************************************************************************)
(* C7: simple_train handles every batch once, in loader order; on each it  *)
(* does zero_grad, forward, loss, backward, step in that order, so the     *)
(* step sees this batch's gradient alone; when it returns it has taken as  *)
(* many steps as the loader has batches.                                   *)
(***************************************************************************)
C7_TrainOrder ==
    /\ pc = "step" =>
          grad = 1 /\ trace = <<"zero_grad", "forward", "loss", "backward">>
    /\ pc = "print" =>
          trace = <<"zero_grad", "forward", "loss", "backward", "step">>
    /\ pc \in TrainPcs => processed = [i \in 1..steps |-> i - 1]
    /\ pc \in {"fetch", "print"} => steps = it
    /\ (pc \in TestPcs \cup {"test", "epoch", "done"} /\ passes.train >= 1) =>
          /\ steps = NumBatches(cfg.train_n, cfg.batch_size)
          /\ processed = [i \in 1..NumBatches(cfg.train_n, cfg.batch_size) |-> i - 1]

C7_Witness ==
    /\ pc = "test"
    /\ epoch = 2
    /\ cfg.train_n = 3
    /\ cfg.batch_size = 2
    /\ steps = 2

(***************************************************************************)
(* C8: the driver runs epochs 1..10 in order, train before test in each;   *)
(* the model is in training mode on every train batch and in evaluation    *)
(* mode on every test batch; a run in which nothing faults ends after      *)
(* exactly 10 train passes and 10 test passes.                             *)
(***************************************************************************)
C8_EpochOrder ==
    /\ pc \in TrainPcs \cup {"train"} => passes = [train |-> epoch - 1, test |-> epoch - 1]
    /\ pc \in TestPcs \cup {"test"} => passes = [train |-> epoch, test |-> epoch - 1]
    /\ pc = "epoch" => passes = [train |-> epoch, test |-> epoch]
    /\ pc \in TrainBatchPcs => training["model"]
    /\ pc \in TestBatchPcs => ~training["model"]
    /\ epoch \in 0..epochs
    /\ pc \in TrainPcs \cup TestPcs \cup {"train", "test"} => epoch >= 1
    /\ pc = "done" => epoch = epochs /\ passes = [train |-> epochs, test |-> epochs]

C9_TestMetrics ==
    (pc = "epoch" /\ report.printed) =>
        /\ report.total = cfg.test_n
        /\ report.correct = Cardinality({i \in 0..(cfg.test_n - 1) :
                                SamplePred(params["model"], i) = target(i)})
        /\ 0 <= report.correct /\ report.correct <= cfg.test_n
        /\ report.avg_loss = <<SumLoss(params["model"], 0..(cfg.test_n - 1)), cfg.test_n>>

C9_Witness ==
    /\ pc = "epoch"
    /\ report.printed
    /\ cfg.test_n = 3
    /\ cfg.test_batch_size = 2
    /\ report.correct = 1
    /\ epoch = 3

(***************************************************************************)
(* C10: a progress line is printed exactly for the batch indices that are  *)
(* multiples of 100, and the sample count it shows is the number of        *)
(* samples the earlier batches of the epoch consumed, never more than      *)
(* len(dataset).                                                           *)
(***************************************************************************)
C10_ProgressCount ==
    /\ \A k \in 1..Len(lines) :
          /\ lines[k].batch_idx = (k - 1) * PrintEvery
          /\ lines[k].shown = Min(lines[k].batch_idx * cfg.batch_size, cfg.train_n)
          /\ lines[k].shown <= cfg.train_n
    /\ pc = "fetch" => Len(lines) = (it + PrintEvery - 1) \div PrintEvery

====
